---- MODULE Spec2Model ----
(***************************************************************************)
(* Model of config/daemonconfig/daemonconfig.go of nydus-snapshotter:      *)
(* SupplementDaemonConfig run by concurrent callers under the package-wide *)
(* configRWMutex.  Every statement of SupplementDaemonConfig that calls a   *)
(* collaborator is one action, so that callers interleave between any two  *)
(* of them.  The collaborators whose code is outside this file (the image   *)
(* parser, the VPC host rewrite, the keychain provider and the methods of   *)
(* the concrete DaemonConfig variants) are modelled from their contracts.   *)
(***************************************************************************)
EXTENDS Integers, Sequences, FiniteSets, TLC

\* Number of callers of SupplementDaemonConfig, and of DaemonConfig variants.
NCalls == 2

Calls == 1..NCalls
Variants == 1..NCalls

\* daemonconfig.go:25-29
backendTypeLocalfs == "localfs"
backendTypeOss == "oss"
backendTypeRegistry == "registry"
\* a backend kind that no case of the switch names
backendTypeOther == "s3"
BackendTypes == {backendTypeLocalfs, backendTypeOss, backendTypeRegistry, backendTypeOther}

----------------------------------------------------------------------------
(* Collaborators: registry.ParseImage, registry.ConvertToVPCHost,          *)
(* auth.GetRegistryKeyChain, config.GetMirrorsConfigDir.                   *)

\* Image identifiers callers pass, in the order callers are given their own.
ImagePool == << "docker.io/library/busybox:latest",
                "ghcr.io/org/app:v1",
                "registry.cn-hangzhou.aliyuncs.com/ns/app:1.0",
                "quay.io/team/tool:2" >>
MalformedImage == "docker.io/UPPER:::"
ImageIDs == {ImagePool[i] : i \in 1..Len(ImagePool)} \cup {MalformedImage}

NoImage == [Host |-> "", Repo |-> ""]

\* registry.ParseImage: string -> (Image{Host, Repo}, error)
ParseImage(imageID) ==
  CASE imageID = "docker.io/library/busybox:latest" ->
         [err |-> FALSE, image |-> [Host |-> "docker.io", Repo |-> "library/busybox"]]
    [] imageID = "ghcr.io/org/app:v1" ->
         [err |-> FALSE, image |-> [Host |-> "ghcr.io", Repo |-> "org/app"]]
    [] imageID = "registry.cn-hangzhou.aliyuncs.com/ns/app:1.0" ->
         [err |-> FALSE, image |-> [Host |-> "registry.cn-hangzhou.aliyuncs.com", Repo |-> "ns/app"]]
    [] imageID = "quay.io/team/tool:2" ->
         [err |-> FALSE, image |-> [Host |-> "quay.io", Repo |-> "team/tool"]]
    [] OTHER -> [err |-> TRUE, image |-> NoImage]

\* registry.ConvertToVPCHost: the private-network equivalent of a registry host
ConvertToVPCHost(registryHost) ==
  CASE registryHost = "docker.io" -> "docker-vpc.io"
    [] registryHost = "ghcr.io" -> "ghcr-vpc.io"
    [] registryHost = "registry.cn-hangzhou.aliyuncs.com" -> "registry-vpc.cn-hangzhou.aliyuncs.com"
    [] registryHost = "quay.io" -> "quay-vpc.io"
    [] OTHER -> registryHost

\* Labels of a snapshot: either none, or labels carrying image-pull credentials.
NoLabels == "no-labels"
CredLabels == "labels-with-credentials"
LabelSets == {NoLabels, CredLabels}

\* Request parameters handed through to Supplement.
NoParams == "no-params"
CacheDirParams == "params-with-cache-dir"
ParamSets == {NoParams, CacheDirParams}

\* The empty keychain (no credential found).
EmptyKeyChain == "no-keychain"

\* auth.GetRegistryKeyChain: never fails; credentials from the labels if they
\* carry any, else those stored for the host, else the empty keychain.
GetRegistryKeyChain(host, ref, labels) ==
  CASE labels = CredLabels -> "keychain-from-labels"
    [] host = "index.docker.io" -> "keychain-dockerhub"
    [] host = "registry-vpc.cn-hangzhou.aliyuncs.com" -> "keychain-aliyun-vpc"
    [] OTHER -> EmptyKeyChain

\* State of the directory config.GetMirrorsConfigDir() names.
DirOK == "readable"
DirBroken == "unreadable"
DirStates == {DirOK, DirBroken}

\* The mirror definitions the directory holds for a registry host, in order.
MirrorSource(registryHost) ==
  CASE registryHost = "index.docker.io" -> << "mirror-a.docker.example", "mirror-b.docker.example" >>
    [] registryHost = "ghcr.io" -> << "mirror.ghcr.example" >>
    [] registryHost = "docker-vpc.io" -> << "mirror.vpc.example" >>
    [] OTHER -> << >>

----------------------------------------------------------------------------
(* The DaemonConfig variant: its backend kind and the registry fields of    *)
(* its BackendConfig (Host, Repo, Auth, Mirrors).                           *)

Template(kind, auth, mirrors) ==
  [backend |-> kind, Host |-> "", Repo |-> "", Auth |-> auth, Mirrors |-> mirrors]

\* A variant as loaded from a template file that sets only the backend kind.
PlainTemplate(kind) == Template(kind, "", << >>)
PlainTemplates == {PlainTemplate(kind) : kind \in BackendTypes}

\* Variants as loaded from a template file, with or without operator-supplied
\* static credentials and mirrors.
Templates ==
  PlainTemplates \cup
  {Template(kind, "static-auth", << "mirror.template.example" >>) : kind \in BackendTypes}

\* DaemonConfig.StorageBackend: the kind (pure introspection)
StorageBackend(c) == c.backend

\* DaemonConfig.Supplement: stores host and repo
Supplement(c, host, repo) == [c EXCEPT !.Host = host, !.Repo = repo]

\* the auth field is set from the keychain even when the keychain is empty
FillAuthAlways(c, kc) == [c EXCEPT !.Auth = IF kc = EmptyKeyChain THEN "" ELSE kc]

\* DaemonConfig.FillAuth: copies the keychain's material when it is not empty
FillAuth(c, kc) == IF kc = EmptyKeyChain THEN c ELSE [c EXCEPT !.Auth = kc]

\* DaemonConfig.UpdateMirrors: replaces the mirror list; on failure leaves it
UpdateMirrors(c, dir, registryHost) ==
  IF dir = DirBroken
    THEN [err |-> TRUE, c |-> c]
    ELSE [err |-> FALSE, c |-> [c EXCEPT !.Mirrors = MirrorSource(registryHost)]]

----------------------------------------------------------------------------
(* SupplementDaemonConfig, daemonconfig.go:140-182                          *)

\* daemonconfig.go:154-160: the registry host the call goes on with
EffectiveRegistryHostNoIndex(imageHost, isVPC) ==
  IF isVPC THEN ConvertToVPCHost(imageHost) ELSE imageHost

EffectiveRegistryHostVPCAfter(imageHost, isVPC) ==
  IF imageHost = "docker.io" THEN "index.docker.io"
  ELSE IF isVPC THEN ConvertToVPCHost(imageHost)
  ELSE imageHost

EffectiveRegistryHost(imageHost, isVPC) ==
  IF isVPC THEN ConvertToVPCHost(imageHost)
  ELSE IF imageHost = "docker.io" THEN "index.docker.io"
  ELSE imageHost

\* Return values of SupplementDaemonConfig: nil, or an error with the message
\* of daemonconfig.go:147, 163, 178 and what the message names
Ret(err, arg) == [err |-> err, arg |-> arg]
NoRet == Ret("running", "")
RetNil == Ret("nil", "")
ErrParseImage == "parse image"
ErrUpdateMirrors == "update mirrors config"
ErrUnknownBackend == "unknown backend type"

NoSnapshot == [backend |-> "none", Host |-> "", Repo |-> "", Auth |-> "", Mirrors |-> << >>]

----------------------------------------------------------------------------
(* serializeWithSecretFilter, daemonconfig.go:184-232                       *)
(* A struct value is the sequence of its fields.  A field carries what      *)
(* reflection gives for it: its Go name, the parts of its json tag (<< >>   *)
(* when it has none), its secret tag, its kind and its value.  The value of *)
(* a string field is str; of a struct field, sub; of a pointer field, nil   *)
(* or a pointer to the struct sub; of a slice field, nil or the structs     *)
(* elems.                                                                   *)

\* Depth to which structs, pointers and slices are nested in the values passed.
MaxDepth == 2

Field(name, tag, secret, kind, str, isNil, sub, elems) ==
  [name |-> name, tag |-> tag, secret |-> secret, kind |-> kind,
   str |-> str, isNil |-> isNil, sub |-> sub, elems |-> elems]

StringField(name, tag, secret, str) == Field(name, tag, secret, "string", str, FALSE, << >>, << >>)
StructField(name, tag, secret, sub) == Field(name, tag, secret, "struct", "", FALSE, sub, << >>)
PtrField(name, tag, secret, sub) == Field(name, tag, secret, "ptr", "", FALSE, sub, << >>)
NilPtrField(name, tag, secret) == Field(name, tag, secret, "ptr", "", TRUE, << >>, << >>)
SliceField(name, tag, secret, elems) == Field(name, tag, secret, "slice", "", FALSE, << >>, elems)
NilSliceField(name, tag, secret) == Field(name, tag, secret, "slice", "", TRUE, << >>, << >>)

\* strings.Split(fieldType.Tag.Get("json"), ","): one empty part when the
\* field has no json tag (daemonconfig.go:198)
jsonTags(f) == IF f.tag = << >> THEN << "" >> ELSE f.tag

\* daemonconfig.go:199-206
omitemptyTag(f) == \E i \in 1..Len(jsonTags(f)) : jsonTags(f)[i] = "omitempty"

\* reflect.DeepEqual(reflect.Zero(field.Type()).Interface(), field.Interface())
RECURSIVE IsZero(_)
IsZero(f) ==
  CASE f.kind = "string" -> f.str = ""
    [] f.kind = "struct" -> \A i \in 1..Len(f.sub) : IsZero(f.sub[i])
    [] OTHER -> f.isNil

\* omitempty is not looked at
SkippedZeroKept(f) ==
  \/ f.secret = "true"
  \/ f.kind = "ptr" /\ f.isNil

\* daemonconfig.go:208-218: the field is left out
Skipped(f) ==
  \/ f.secret = "true"
  \/ f.kind = "ptr" /\ f.isNil
  \/ omitemptyTag(f) /\ IsZero(f)

\* daemonconfig.go:223-227: the key the field is stored under
Key(f) == jsonTags(f)[1]

\* The map[string]interface{} built: a function from keys to rendered values
EmptyMap == [k \in {} |-> 0]
Put(m, k, v) == [x \in (DOMAIN m) \cup {k} |-> IF x = k THEN v ELSE m[x]]

\* What is stored for a field: a nested map, or the field's value as it is
NoLiteral == [kind |-> "none", str |-> "", isNil |-> FALSE, sub |-> << >>, elems |-> << >>]
Literal(f) == [kind |-> f.kind, str |-> f.str, isNil |-> f.isNil, sub |-> f.sub, elems |-> f.elems]
AsMap(m) == [map |-> TRUE, entries |-> m, lit |-> NoLiteral]
AsLiteral(v) == [map |-> FALSE, entries |-> EmptyMap, lit |-> v]

RECURSIVE serializeStruct(_)

\* daemonconfig.go:221-228: the switch on the kind of the field's type
Rendered(f) ==
  CASE f.kind = "struct" -> AsMap(serializeStruct(f.sub))
    [] f.kind = "ptr" -> AsMap(serializeStruct(f.sub))
    [] OTHER -> AsLiteral(Literal(f))

\* daemonconfig.go:194-229: the loop over the fields, from field i on
RECURSIVE serializeFields(_, _, _)
serializeFields(st, i, result) ==
  IF i > Len(st)
    THEN result
    ELSE serializeFields(st, i + 1,
           IF Skipped(st[i]) THEN result ELSE Put(result, Key(st[i]), Rendered(st[i])))

\* daemonconfig.go:185, 194-231
serializeStruct(st) == serializeFields(st, 1, EmptyMap)

\* daemonconfig.go:184-232: obj is a struct or a pointer to one (lines 189-192)
serializeWithSecretFilter(obj) == serializeStruct(obj.st)

\* The values passed: fields of a first field A ...
LeafFields ==
  {StringField("A", tag, secret, str) :
     tag \in {<< "a" >>, << "a", "omitempty" >>, << >>}, secret \in {"", "true"}, str \in {"", "s"}}

\* ... how a field that holds structs is declared ...
ContainerDecls ==
  {[tag |-> << "c" >>, secret |-> ""],
   [tag |-> << "c", "omitempty" >>, secret |-> ""],
   [tag |-> << "c" >>, secret |-> "true"]}

\* ... structs of one field nested to depth d ...
RECURSIVE Nested(_)
Nested(d) ==
  IF d = 0
    THEN {<< f >> : f \in LeafFields}
    ELSE LET inner == Nested(d - 1) IN
      inner
      \cup {<< StructField("C", c.tag, c.secret, sub) >> : c \in ContainerDecls, sub \in inner}
      \cup {<< PtrField("C", c.tag, c.secret, sub) >> : c \in ContainerDecls, sub \in inner}
      \cup {<< SliceField("C", c.tag, c.secret, << sub >>) >> : c \in ContainerDecls, sub \in inner}
      \cup {<< NilPtrField("C", c.tag, c.secret) >> : c \in ContainerDecls}
      \cup {<< NilSliceField("C", c.tag, c.secret) >> : c \in ContainerDecls}
      \cup {<< SliceField("C", c.tag, c.secret, << >>) >> : c \in ContainerDecls}

\* ... and a second field B that may follow the first.
SecondFields ==
  {StringField("B", << "b" >>, "", "t"),
   StringField("B", << "b" >>, "", ""),
   StringField("B", << "b" >>, "true", "t"),
   StringField("B", << >>, "", "t")}

Objects ==
  LET firsts == Nested(MaxDepth) IN
    [ptr : BOOLEAN, st : firsts \cup {st \o << g >> : st \in firsts, g \in SecondFields}]

----------------------------------------------------------------------------
(* NewDaemonConfig, daemonconfig.go:42-59                                   *)

\* config.FsDriverFscache, config.FsDriverFusedev, and the other values the
\* snapshotter's configuration takes for the fs driver
FsDriverFscache == "fscache"
FsDriverFusedev == "fusedev"
FsDrivers == {FsDriverFscache, FsDriverFusedev, "blockdev", "nodev", "proxy", ""}

\* The template paths passed and what is at each
Paths ==
  {"/etc/nydus/nydusd-fusedev.json", "/etc/nydus/nydusd-fscache.json",
   "/etc/nydus/truncated.json", "/etc/nydus/absent.json", "/etc/nydus", ""}
Decodable(path) == path \in {"/etc/nydus/nydusd-fusedev.json", "/etc/nydus/nydusd-fscache.json"}
Readable(path) == Decodable(path) \/ path = "/etc/nydus/truncated.json"

ErrUnsupportedDriver == "unsupported, fs driver"
ErrReadTemplate == "read template"
ErrDecodeTemplate == "decode template"

\* A variant as loaded, and the nil variant
Loaded(driver, path) == [driver |-> driver, template |-> path]
NilConfig == Loaded("nil", "")

\* The pair (cfg, err) a loader or NewDaemonConfig returns
Pair(c, err) == [cfg |-> c, err |-> err]
NoPair == Pair(NilConfig, NoRet)

\* The loaders: the template read and decoded into the variant of the driver
LoadTemplate(driver, path) ==
  CASE ~Readable(path) -> Pair(NilConfig, Ret(ErrReadTemplate, path))
    [] ~Decodable(path) -> Pair(NilConfig, Ret(ErrDecodeTemplate, path))
    [] OTHER -> Pair(Loaded(driver, path), RetNil)
LoadFscacheConfig(path) == LoadTemplate(FsDriverFscache, path)
LoadFuseConfig(path) == LoadTemplate(FsDriverFusedev, path)

NoObject == [ptr |-> FALSE, st |-> << >>]
NotRun == [ran |-> FALSE, map |-> EmptyMap]

VARIABLES
  obj,            \* the value serializeWithSecretFilter is called with
  result,         \* whether it has returned, and the map it returned
  fsDriver,       \* NewDaemonConfig: the driver asked for
  path,           \* NewDaemonConfig: the template path
  newPc,          \* NewDaemonConfig: where the call is
  loads,          \* NewDaemonConfig: the loader calls made, in order
  loadRes,        \* NewDaemonConfig: cfg, err of the case taken
  newRet,         \* NewDaemonConfig: what it returned
  configRWMutex,  \* [w: is the write lock held, r: number of read locks held]
  mirrorsDir,     \* state of the mirrors configuration directory
  cfg,            \* cfg[v]: the DaemonConfig variant v
  target,         \* target[p]: the variant call p is made on (argument c)
  info,           \* info[p]: the SupplementInfoInterface values of call p
  pc,             \* pc[p]: where call p stands
  image,          \* local image of call p
  backendType,    \* local backendType of call p
  registryHost,   \* local registryHost of call p
  keyChain,       \* local keyChain of call p
  ret,            \* value call p returns
  pre,            \* the variant as call p found it when it got the lock
  trace           \* collaborator calls made by call p, in order

\* What no statement of SupplementDaemonConfig writes
redactVars == << obj, result >>
newVars == << fsDriver, path, newPc, loads, loadRes, newRet >>
inputs == << mirrorsDir, target, info, redactVars, newVars >>
locals == << image, backendType, registryHost, keyChain >>
supplementVars == << configRWMutex, mirrorsDir, cfg, target, info, pc, locals, ret, pre, trace >>
vars == << redactVars, newVars, configRWMutex, mirrorsDir, cfg, target, info, pc, image, backendType,
           registryHost, keyChain, ret, pre, trace >>

Infos == [imageID : ImageIDs, vpc : BOOLEAN, labels : LabelSets, params : ParamSets]

\* Control points between sync.RWMutex.Lock returning and the deferred Unlock
CriticalPCs == {"parse", "backend", "switch", "mirrors", "keychain", "supplement", "fillauth", "ret"}
InCritical(p) == pc[p] \in CriticalPCs

\* serializeWithSecretFilter is not called
NoRedact == obj = NoObject /\ result = NotRun

\* No call of SupplementDaemonConfig is made yet
InitCalls ==
  /\ configRWMutex = [w |-> FALSE, r |-> 0]
  /\ pc = [p \in Calls |-> "idle"]
  /\ image = [p \in Calls |-> NoImage]
  /\ backendType = [p \in Calls |-> ""]
  /\ registryHost = [p \in Calls |-> ""]
  /\ keyChain = [p \in Calls |-> EmptyKeyChain]
  /\ ret = [p \in Calls |-> NoRet]
  /\ pre = [p \in Calls |-> NoSnapshot]
  /\ trace = [p \in Calls |-> << >>]

\* NewDaemonConfig is not called
NoNew ==
  /\ fsDriver = ""
  /\ path = ""
  /\ newPc = "idle"
  /\ loads = << >>
  /\ loadRes = NoPair
  /\ newRet = NoPair

InitLocals == InitCalls /\ NoRedact /\ NoNew

\* The image identifier caller p brings
OwnImage(p) == ImagePool[((p - 1) % Len(ImagePool)) + 1]

PlainInfo(imageID) == [imageID |-> imageID, vpc |-> FALSE, labels |-> NoLabels, params |-> NoParams]

\* One caller (caller 1): any variant loaded from any template, any info.
InitSeq ==
  /\ InitLocals
  /\ mirrorsDir \in DirStates
  /\ \E v \in Variants, t \in Templates, i \in Infos :
       /\ target = [p \in Calls |-> IF p = 1 THEN v ELSE p]
       /\ cfg = [w \in Variants |-> IF w = v THEN t ELSE PlainTemplate(backendTypeRegistry)]
       /\ info = [p \in Calls |-> IF p = 1 THEN i ELSE PlainInfo(OwnImage(p))]

\* Concurrent callers: caller p passes its own image or a malformed one, on
\* its own variant or on variant 1; the variants are of any backend kind.
Init ==
  /\ InitLocals
  /\ mirrorsDir \in DirStates
  /\ cfg \in [Variants -> PlainTemplates]
  /\ target \in [Calls -> Variants]
  /\ \A p \in Calls : target[p] \in {1, p}
  /\ info \in [Calls -> {PlainInfo(id) : id \in ImageIDs}]
  /\ \A p \in Calls : info[p].imageID \in {OwnImage(p), MalformedImage}

\* the caller invokes SupplementDaemonConfig(c, info)
Call(p) ==
  /\ pc[p] = "idle"
  /\ pc' = [pc EXCEPT ![p] = "lock"]
  /\ UNCHANGED << configRWMutex, cfg, inputs, locals, ret, pre, trace >>

\* sync.RWMutex.Lock may return: no writer and no reader holds the lock
LockGuard(m) == ~m.w /\ m.r = 0

\* the call goes on without waiting for the lock
LockNotTaken(p) ==
  /\ pc[p] = "lock"
  /\ configRWMutex' = [configRWMutex EXCEPT !.w = TRUE]
  /\ pre' = [pre EXCEPT ![p] = cfg[target[p]]]
  /\ pc' = [pc EXCEPT ![p] = "parse"]
  /\ UNCHANGED << cfg, inputs, locals, ret, trace >>

\* daemonconfig.go:142
Lock(p) ==
  /\ pc[p] = "lock"
  /\ LockGuard(configRWMutex)
  /\ configRWMutex' = [configRWMutex EXCEPT !.w = TRUE]
  /\ pre' = [pre EXCEPT ![p] = cfg[target[p]]]
  /\ pc' = [pc EXCEPT ![p] = "parse"]
  /\ UNCHANGED << cfg, inputs, locals, ret, trace >>

\* the parse error is dropped and the call goes on with the zero Image
DoParseImageErrorIgnored(p) ==
  /\ pc[p] = "parse"
  /\ image' = [image EXCEPT ![p] = ParseImage(info[p].imageID).image]
  /\ trace' = [trace EXCEPT ![p] = Append(@, << "ParseImage", info[p].imageID >>)]
  /\ pc' = [pc EXCEPT ![p] = "backend"]
  /\ UNCHANGED << configRWMutex, cfg, inputs, backendType, registryHost, keyChain, ret, pre >>

\* daemonconfig.go:145-148
DoParseImage(p) ==
  /\ pc[p] = "parse"
  /\ LET r == ParseImage(info[p].imageID) IN
       /\ image' = [image EXCEPT ![p] = r.image]
       /\ trace' = [trace EXCEPT ![p] = Append(@, << "ParseImage", info[p].imageID >>)]
       /\ IF r.err
            THEN /\ ret' = [ret EXCEPT ![p] = Ret(ErrParseImage, info[p].imageID)]
                 /\ pc' = [pc EXCEPT ![p] = "ret"]
            ELSE /\ ret' = ret
                 /\ pc' = [pc EXCEPT ![p] = "backend"]
  /\ UNCHANGED << configRWMutex, cfg, inputs, backendType, registryHost, keyChain, pre >>

\* daemonconfig.go:150
DoStorageBackend(p) ==
  /\ pc[p] = "backend"
  /\ backendType' = [backendType EXCEPT ![p] = StorageBackend(cfg[target[p]])]
  /\ trace' = [trace EXCEPT ![p] = Append(@, << "StorageBackend" >>)]
  /\ pc' = [pc EXCEPT ![p] = "switch"]
  /\ UNCHANGED << configRWMutex, cfg, inputs, image, registryHost, keyChain, ret, pre >>

\* daemonconfig.go:152-160: case backendTypeRegistry, up to the effective host
ResolveHost(p) ==
  /\ pc[p] = "switch"
  /\ backendType[p] = backendTypeRegistry
  /\ registryHost' = [registryHost EXCEPT ![p] = EffectiveRegistryHost(image[p].Host, info[p].vpc)]
  /\ pc' = [pc EXCEPT ![p] = "mirrors"]
  /\ UNCHANGED << configRWMutex, cfg, inputs, image, backendType, keyChain, ret, pre, trace >>

\* the switch has no case for backendTypeOss, which falls to default
NoUpdateLocalfsOnly(p) ==
  /\ pc[p] = "switch"
  /\ backendType[p] \in {backendTypeLocalfs, backendTypeOss}
  /\ ret' = [ret EXCEPT ![p] = IF backendType[p] = backendTypeLocalfs
                                  THEN RetNil
                                  ELSE Ret(ErrUnknownBackend, backendType[p])]
  /\ pc' = [pc EXCEPT ![p] = "ret"]
  /\ UNCHANGED << configRWMutex, cfg, inputs, locals, pre, trace >>

\* daemonconfig.go:175-176, 181: case backendTypeLocalfs, case backendTypeOss
NoUpdate(p) ==
  /\ pc[p] = "switch"
  /\ backendType[p] \in {backendTypeLocalfs, backendTypeOss}
  /\ ret' = [ret EXCEPT ![p] = RetNil]
  /\ pc' = [pc EXCEPT ![p] = "ret"]
  /\ UNCHANGED << configRWMutex, cfg, inputs, locals, pre, trace >>

\* the switch has no default case: an unknown kind returns nil
UnknownBackendAccepted(p) ==
  /\ pc[p] = "switch"
  /\ backendType[p] \notin {backendTypeRegistry, backendTypeLocalfs, backendTypeOss}
  /\ ret' = [ret EXCEPT ![p] = RetNil]
  /\ pc' = [pc EXCEPT ![p] = "ret"]
  /\ UNCHANGED << configRWMutex, cfg, inputs, locals, pre, trace >>

\* daemonconfig.go:177-178: default
UnknownBackend(p) ==
  /\ pc[p] = "switch"
  /\ backendType[p] \notin {backendTypeRegistry, backendTypeLocalfs, backendTypeOss}
  /\ ret' = [ret EXCEPT ![p] = Ret(ErrUnknownBackend, backendType[p])]
  /\ pc' = [pc EXCEPT ![p] = "ret"]
  /\ UNCHANGED << configRWMutex, cfg, inputs, locals, pre, trace >>

\* the error of UpdateMirrors is dropped and the call goes on
DoUpdateMirrorsErrorIgnored(p) ==
  /\ pc[p] = "mirrors"
  /\ cfg' = [cfg EXCEPT ![target[p]] = UpdateMirrors(@, mirrorsDir, registryHost[p]).c]
  /\ trace' = [trace EXCEPT ![p] = Append(@, << "UpdateMirrors", registryHost[p] >>)]
  /\ pc' = [pc EXCEPT ![p] = "keychain"]
  /\ UNCHANGED << configRWMutex, inputs, locals, ret, pre >>

\* a failed UpdateMirrors is tried a second time before the error is returned
DoUpdateMirrorsRetried(p) ==
  /\ pc[p] = "mirrors"
  /\ LET r == UpdateMirrors(cfg[target[p]], mirrorsDir, registryHost[p])
         again == r.err /\ Len(trace[p]) < 3 IN
       /\ cfg' = [cfg EXCEPT ![target[p]] = r.c]
       /\ trace' = [trace EXCEPT ![p] = Append(@, << "UpdateMirrors", registryHost[p] >>)]
       /\ ret' = IF r.err /\ ~again THEN [ret EXCEPT ![p] = Ret(ErrUpdateMirrors, "")] ELSE ret
       /\ pc' = [pc EXCEPT ![p] = IF again THEN "mirrors" ELSE IF r.err THEN "ret" ELSE "keychain"]
  /\ UNCHANGED << configRWMutex, inputs, locals, pre >>

\* the mirrors read are added to the list the variant already has
DoUpdateMirrorsAppended(p) ==
  /\ pc[p] = "mirrors"
  /\ LET c == cfg[target[p]]
         r == UpdateMirrors(c, mirrorsDir, registryHost[p]) IN
       /\ cfg' = [cfg EXCEPT ![target[p]] =
                    IF r.err THEN r.c ELSE [r.c EXCEPT !.Mirrors = c.Mirrors \o r.c.Mirrors]]
       /\ trace' = [trace EXCEPT ![p] = Append(@, << "UpdateMirrors", registryHost[p] >>)]
       /\ IF r.err
            THEN /\ ret' = [ret EXCEPT ![p] = Ret(ErrUpdateMirrors, "")]
                 /\ pc' = [pc EXCEPT ![p] = "ret"]
            ELSE /\ ret' = ret
                 /\ pc' = [pc EXCEPT ![p] = "keychain"]
  /\ UNCHANGED << configRWMutex, inputs, locals, pre >>

\* daemonconfig.go:162-164
DoUpdateMirrors(p) ==
  /\ pc[p] = "mirrors"
  /\ LET r == UpdateMirrors(cfg[target[p]], mirrorsDir, registryHost[p]) IN
       /\ cfg' = [cfg EXCEPT ![target[p]] = r.c]
       /\ trace' = [trace EXCEPT ![p] = Append(@, << "UpdateMirrors", registryHost[p] >>)]
       /\ IF r.err
            THEN /\ ret' = [ret EXCEPT ![p] = Ret(ErrUpdateMirrors, "")]
                 /\ pc' = [pc EXCEPT ![p] = "ret"]
            ELSE /\ ret' = ret
                 /\ pc' = [pc EXCEPT ![p] = "keychain"]
  /\ UNCHANGED << configRWMutex, inputs, locals, pre >>

\* daemonconfig.go:169
DoGetRegistryKeyChain(p) ==
  /\ pc[p] = "keychain"
  /\ keyChain' = [keyChain EXCEPT ![p] =
                    GetRegistryKeyChain(registryHost[p], info[p].imageID, info[p].labels)]
  /\ trace' = [trace EXCEPT ![p] = Append(@, << "GetRegistryKeyChain", registryHost[p],
                                                    info[p].imageID, info[p].labels >>)]
  /\ pc' = [pc EXCEPT ![p] = "supplement"]
  /\ UNCHANGED << configRWMutex, cfg, inputs, image, backendType, registryHost, ret, pre >>

\* Supplement is given the host and repo of whichever call parsed an image last
\* (a package-level variable instead of the locals)
DoSupplementShared(p) ==
  /\ pc[p] = "supplement"
  /\ \E q \in Calls :
       /\ image[q] # NoImage
       /\ cfg' = [cfg EXCEPT ![target[p]] =
                    Supplement(@, EffectiveRegistryHost(image[q].Host, info[q].vpc), image[q].Repo)]
  /\ trace' = [trace EXCEPT ![p] = Append(@, << "Supplement", registryHost[p] >>)]
  /\ pc' = [pc EXCEPT ![p] = "fillauth"]
  /\ UNCHANGED << configRWMutex, inputs, locals, ret, pre >>

\* daemonconfig.go:170
DoSupplement(p) ==
  /\ pc[p] = "supplement"
  /\ cfg' = [cfg EXCEPT ![target[p]] = Supplement(@, registryHost[p], image[p].Repo)]
  /\ trace' = [trace EXCEPT ![p] =
                 Append(@, << "Supplement", registryHost[p], image[p].Repo, info[p].params >>)]
  /\ pc' = [pc EXCEPT ![p] = "fillauth"]
  /\ UNCHANGED << configRWMutex, inputs, locals, ret, pre >>

\* daemonconfig.go:171, 181
DoFillAuth(p) ==
  /\ pc[p] = "fillauth"
  /\ cfg' = [cfg EXCEPT ![target[p]] = FillAuth(@, keyChain[p])]
  /\ trace' = [trace EXCEPT ![p] = Append(@, << "FillAuth", keyChain[p] >>)]
  /\ ret' = [ret EXCEPT ![p] = RetNil]
  /\ pc' = [pc EXCEPT ![p] = "ret"]
  /\ UNCHANGED << configRWMutex, inputs, locals, pre >>

\* Unlock written at the end of the function instead of deferred
UnlockOnSuccessOnly(p) ==
  /\ pc[p] = "ret"
  /\ configRWMutex' = IF ret[p] = RetNil THEN [configRWMutex EXCEPT !.w = FALSE]
                                         ELSE configRWMutex
  /\ pc' = [pc EXCEPT ![p] = "done"]
  /\ UNCHANGED << cfg, inputs, locals, ret, pre, trace >>

\* daemonconfig.go:143: the deferred Unlock, run on every return
Unlock(p) ==
  /\ pc[p] = "ret"
  /\ configRWMutex' = [configRWMutex EXCEPT !.w = FALSE]
  /\ pc' = [pc EXCEPT ![p] = "done"]
  /\ UNCHANGED << cfg, inputs, locals, ret, pre, trace >>

\* The statements of SupplementDaemonConfig after Lock
Body(p) ==
  \/ DoParseImage(p)
  \/ DoStorageBackend(p)
  \/ ResolveHost(p)
  \/ NoUpdate(p)
  \/ UnknownBackend(p)
  \/ DoUpdateMirrors(p)
  \/ DoGetRegistryKeyChain(p)
  \/ DoSupplement(p)
  \/ DoFillAuth(p)
  \/ Unlock(p)

SupplementDaemonConfig(p) == Call(p) \/ Lock(p) \/ Body(p)

Next == \E p \in Calls : SupplementDaemonConfig(p)

Spec == Init /\ [][Next]_vars

\* A single caller.
NextSeq == SupplementDaemonConfig(1)

SpecSeq == InitSeq /\ [][NextSeq]_vars

\* Every started call is scheduled: a goroutine whose next statement can run
\* runs it, and a goroutine blocked in Lock gets the lock once it stays free.
Fairness == \A p \in Calls : WF_vars(Lock(p) \/ Body(p))

FairSpec == Init /\ [][Next]_vars /\ Fairness

\* Every caller makes the same call: one variant loaded from any template, one
\* info; the lock puts the calls one after the other.
InitTwice ==
  /\ InitLocals
  /\ mirrorsDir \in DirStates
  /\ \E v \in Variants, t \in Templates, i \in Infos :
       /\ target = [p \in Calls |-> v]
       /\ cfg = [w \in Variants |-> IF w = v THEN t ELSE PlainTemplate(backendTypeRegistry)]
       /\ info = [p \in Calls |-> i]

SpecTwice == InitTwice /\ [][Next]_vars

\* No caller of SupplementDaemonConfig: the variants stay as loaded
NoSupplement ==
  /\ InitCalls
  /\ mirrorsDir = DirOK
  /\ cfg = [v \in Variants |-> PlainTemplate(backendTypeRegistry)]
  /\ target = [p \in Calls |-> p]
  /\ info = [p \in Calls |-> PlainInfo(OwnImage(p))]

InitRedact ==
  /\ NoSupplement
  /\ NoNew
  /\ obj \in Objects
  /\ result = NotRun

\* daemonconfig.go:184-232
Redact ==
  /\ ~result.ran
  /\ result' = [ran |-> TRUE, map |-> serializeWithSecretFilter(obj)]
  /\ UNCHANGED << obj, newVars, supplementVars >>

SpecRedact == InitRedact /\ [][Redact]_vars

InitNew ==
  /\ NoSupplement
  /\ NoRedact
  /\ fsDriver \in FsDrivers
  /\ path \in Paths
  /\ newPc = "idle"
  /\ loads = << >>
  /\ loadRes = NoPair
  /\ newRet = NoPair

\* daemonconfig.go:42-43: the call, up to the switch
NewCall ==
  /\ newPc = "idle"
  /\ newPc' = "switch"
  /\ UNCHANGED << fsDriver, path, loads, loadRes, newRet, redactVars, supplementVars >>

\* daemonconfig.go:44-45
FscacheCase ==
  /\ newPc = "switch"
  /\ fsDriver = FsDriverFscache
  /\ loads' = Append(loads, << "LoadFscacheConfig", path >>)
  /\ loadRes' = LoadFscacheConfig(path)
  /\ newPc' = "fscache"
  /\ UNCHANGED << fsDriver, path, newRet, redactVars, supplementVars >>

\* daemonconfig.go:46-49
FscacheReturn ==
  /\ newPc = "fscache"
  /\ newRet' = IF loadRes.err # RetNil THEN Pair(NilConfig, loadRes.err) ELSE Pair(loadRes.cfg, RetNil)
  /\ newPc' = "ret"
  /\ UNCHANGED << fsDriver, path, loads, loadRes, redactVars, supplementVars >>

\* daemonconfig.go:50-51
FusedevCase ==
  /\ newPc = "switch"
  /\ fsDriver = FsDriverFusedev
  /\ loads' = Append(loads, << "LoadFuseConfig", path >>)
  /\ loadRes' = LoadFuseConfig(path)
  /\ newPc' = "fusedev"
  /\ UNCHANGED << fsDriver, path, newRet, redactVars, supplementVars >>

\* daemonconfig.go:52-55
FusedevReturn ==
  /\ newPc = "fusedev"
  /\ newRet' = IF loadRes.err # RetNil THEN Pair(NilConfig, loadRes.err) ELSE Pair(loadRes.cfg, RetNil)
  /\ newPc' = "ret"
  /\ UNCHANGED << fsDriver, path, loads, loadRes, redactVars, supplementVars >>

\* any other driver is taken for fusedev
DefaultCaseFusedev ==
  /\ newPc = "switch"
  /\ fsDriver \notin {FsDriverFscache, FsDriverFusedev}
  /\ loads' = Append(loads, << "LoadFuseConfig", path >>)
  /\ loadRes' = LoadFuseConfig(path)
  /\ newPc' = "fusedev"
  /\ UNCHANGED << fsDriver, path, newRet, redactVars, supplementVars >>

\* daemonconfig.go:56-58
DefaultCase ==
  /\ newPc = "switch"
  /\ fsDriver \notin {FsDriverFscache, FsDriverFusedev}
  /\ newRet' = Pair(NilConfig, Ret(ErrUnsupportedDriver, fsDriver))
  /\ newPc' = "ret"
  /\ UNCHANGED << fsDriver, path, loads, loadRes, redactVars, supplementVars >>

NewDaemonConfig ==
  \/ NewCall
  \/ FscacheCase
  \/ FscacheReturn
  \/ FusedevCase
  \/ FusedevReturn
  \/ DefaultCase

SpecNew == InitNew /\ [][NewDaemonConfig]_vars

----------------------------------------------------------------------------
(* Properties                                                               *)

\* Names of the collaborator calls a call has made, in order
Ops(t) == [i \in 1..Len(t) |-> t[i][1]]

IsPrefix(s, t) == Len(s) <= Len(t) /\ \A i \in 1..Len(s) : s[i] = t[i]

Returned(p) == pc[p] \in {"ret", "done"}

\* What registry.ParseImage makes of the image identifier of call p
Parsed(p) == ParseImage(info[p].imageID)

AtMostOneInCritical == Cardinality({p \in Calls : InCritical(p)}) <= 1

\* A collaborator call is made, and a variant is changed, only by the one call
\* that is between Lock and Unlock.
CallsUnderLock ==
  /\ \A p \in Calls :
       trace'[p] # trace[p] =>
         /\ InCritical(p)
         /\ configRWMutex.w
         /\ \A q \in Calls \ {p} : ~InCritical(q)
  /\ cfg' # cfg => \E p \in Calls : InCritical(p) /\ trace'[p] # trace[p]

\* While a call has made collaborator calls and has not returned, no other call
\* makes one.
NoInterleaving ==
  \A p \in Calls : \A q \in Calls \ {p} :
    (trace[p] # << >> /\ pc[p] # "done") => trace'[q] = trace[q]

\* C1: at most one call is between acquiring and releasing configRWMutex, for
\* callers on the same or on distinct variants; every collaborator call and
\* every change of a variant is made by the call holding the lock, and the
\* collaborator calls of two calls never interleave.
C1_MutualExclusion ==
  /\ []AtMostOneInCritical
  /\ [][CallsUnderLock]_vars
  /\ [][NoInterleaving]_vars

\* C1 witness: one call is about to call Supplement while another call, made
\* on the same variant, waits in Lock.
C1_Witness ==
  \E p \in Calls : \E q \in Calls \ {p} :
    /\ pc[p] = "supplement"
    /\ pc[q] = "lock"
    /\ target[p] = target[q]

\* The lock is free whenever no call is between Lock and Unlock.
LockFreeWhenNoneHolds == (\A p \in Calls : ~InCritical(p)) => ~configRWMutex.w

\* C2: a call that has returned, on any exit path, has released the lock, so the
\* lock is free whenever no call is in its critical section; and under fair
\* scheduling every call that has started acquires the lock and returns.
C2_LockReleased ==
  /\ []LockFreeWhenNoneHolds
  /\ \A p \in Calls : (pc[p] = "lock") ~> (pc[p] = "done")

\* C2 witness: every call has returned, one of them with an error and another
\* with success, and the lock is free.
C2_Witness ==
  /\ \A p \in Calls : pc[p] = "done"
  /\ \E p \in Calls : ret[p].err \in {ErrParseImage, ErrUpdateMirrors, ErrUnknownBackend}
  /\ \E p \in Calls : ret[p] = RetNil
  /\ ~configRWMutex.w

\* Calls on pairwise distinct registry variants that have all returned nil
AllDistinctRegistryDone ==
  /\ \A p \in Calls : pc[p] = "done" /\ ret[p] = RetNil
  /\ \A p \in Calls : cfg[target[p]].backend = backendTypeRegistry
  /\ \A p \in Calls : \A q \in Calls \ {p} :
       target[p] # target[q] /\ info[p].imageID # info[q].imageID

\* Some call has started and not returned
SomeCallRunning == \E p \in Calls : pc[p] \notin {"idle", "done"}

\* C3: concurrent calls on distinct registry variants with distinct images never
\* deadlock, and once all have returned nil each variant holds the effective
\* host and the repo of its own call's image.
C3_NoCrossContamination ==
  /\ SomeCallRunning => ENABLED (\E p \in Calls : Lock(p) \/ Body(p))
  /\ AllDistinctRegistryDone =>
       \A p \in Calls :
         /\ cfg[target[p]].Host = EffectiveRegistryHost(Parsed(p).image.Host, info[p].vpc)
         /\ cfg[target[p]].Repo = Parsed(p).image.Repo

\* C3 witness: all calls returned nil on distinct registry variants
C3_Witness == AllDistinctRegistryDone /\ cfg[1].Host = "index.docker.io"

\* Call p is on the registry path and past daemonconfig.go:154-160
HostResolved(p) ==
  /\ backendType[p] = backendTypeRegistry
  /\ pc[p] \in {"mirrors", "keychain", "supplement", "fillauth", "ret", "done"}

\* C4: on a registry variant, with the image parsed to (host, repo), the
\* effective host is ConvertToVPCHost(host) when the VPC flag is set, else
\* index.docker.io when host is docker.io, else host; without the VPC flag
\* docker.io is never used as such and no other host is rewritten.
C4_EffectiveHost ==
  \A p \in Calls :
    HostResolved(p) =>
      LET host == Parsed(p).image.Host IN
        /\ info[p].vpc => registryHost[p] = ConvertToVPCHost(host)
        /\ (~info[p].vpc /\ host = "docker.io") => registryHost[p] = "index.docker.io"
        /\ (~info[p].vpc /\ host # "docker.io") => registryHost[p] = host
        /\ ~info[p].vpc => registryHost[p] # "docker.io"

\* C4 witness: a docker.io image without the VPC flag was supplemented under
\* index.docker.io
C4_Witness ==
  \E p \in Calls :
    /\ HostResolved(p) /\ pc[p] = "done" /\ ret[p] = RetNil
    /\ Parsed(p).image.Host = "docker.io" /\ ~info[p].vpc
    /\ cfg[target[p]].Host = "index.docker.io"

\* Collaborator calls that are given the registry host
TakesHost == {"UpdateMirrors", "GetRegistryKeyChain", "Supplement"}

\* C5: with the VPC flag set the host handed to UpdateMirrors and to the
\* keychain lookup is already the VPC rewrite of the parsed host, docker.io
\* included (it is not turned into index.docker.io); and in every registry
\* call UpdateMirrors, the keychain lookup and Supplement get one same host.
C5_VPCFirstAndOneHost ==
  \A p \in Calls :
    \A i \in 1..Len(trace[p]) :
      trace[p][i][1] \in TakesHost =>
        /\ trace[p][i][2] = registryHost[p]
        /\ \A j \in 1..Len(trace[p]) :
             trace[p][j][1] \in TakesHost => trace[p][j][2] = trace[p][i][2]
        /\ info[p].vpc => trace[p][i][2] = ConvertToVPCHost(Parsed(p).image.Host)

\* C5 witness: a docker.io image with the VPC flag set went through
\* UpdateMirrors, the keychain lookup and Supplement under the VPC host
C5_Witness ==
  \E p \in Calls :
    /\ pc[p] = "done" /\ ret[p] = RetNil /\ info[p].vpc
    /\ Parsed(p).image.Host = "docker.io"
    /\ Len(trace[p]) = 6
    /\ trace[p][3] = << "UpdateMirrors", "docker-vpc.io" >>
    /\ trace[p][4][2] = "docker-vpc.io"
    /\ trace[p][5][2] = "docker-vpc.io"

\* daemonconfig.go:145-171 in the order of the statements
RegistryOrder ==
  << "ParseImage", "StorageBackend", "UpdateMirrors", "GetRegistryKeyChain",
     "Supplement", "FillAuth" >>

\* C6: a call makes its collaborator calls in the order image parse,
\* StorageBackend, UpdateMirrors, keychain lookup, Supplement, FillAuth, none
\* of them twice and none before the ones ahead of it, and a registry call
\* that returns nil has made each of them exactly once.
C6_OrderOnce ==
  \A p \in Calls :
    /\ IsPrefix(Ops(trace[p]), RegistryOrder)
    /\ (Returned(p) /\ ret[p] = RetNil /\ backendType[p] = backendTypeRegistry)
         => Ops(trace[p]) = RegistryOrder

\* C6 witness: a registry call has returned nil
C6_Witness ==
  \E p \in Calls :
    /\ pc[p] = "done" /\ ret[p] = RetNil /\ backendType[p] = backendTypeRegistry
    /\ Len(trace[p]) = 6

\* C7: when the image identifier does not parse the call returns the parse
\* error, whatever the backend kind, having called neither StorageBackend,
\* UpdateMirrors, the keychain lookup, Supplement nor FillAuth, and the variant
\* is as it was before the call.
C7_ParseErrorNoMutation ==
  \A p \in Calls :
    (Returned(p) /\ Parsed(p).err) =>
      /\ ret[p] = Ret(ErrParseImage, info[p].imageID)
      /\ Ops(trace[p]) = << "ParseImage" >>
      /\ cfg[target[p]] = pre[p]

\* C7 witness: a call with a malformed image on a registry variant that has
\* static credentials and mirrors has returned
C7_Witness ==
  \E p \in Calls :
    /\ pc[p] = "done" /\ Parsed(p).err
    /\ cfg[target[p]].backend = backendTypeRegistry
    /\ cfg[target[p]].Auth = "static-auth"

\* C8: when UpdateMirrors fails in a registry call, the call returns that error
\* wrapped, calls neither the keychain lookup nor Supplement nor FillAuth, and
\* host, repo, auth and (UpdateMirrors leaving them on failure) mirrors of the
\* variant are as before the call.
C8_MirrorErrorNoMutation ==
  \A p \in Calls :
    (/\ Returned(p)
     /\ ~Parsed(p).err
     /\ pre[p].backend = backendTypeRegistry
     /\ mirrorsDir = DirBroken) =>
      /\ ret[p] = Ret(ErrUpdateMirrors, "")
      /\ Ops(trace[p]) = << "ParseImage", "StorageBackend", "UpdateMirrors" >>
      /\ cfg[target[p]] = pre[p]

\* C8 witness: UpdateMirrors has failed on a registry variant that has static
\* credentials and mirrors, for an image whose host has stored credentials
C8_Witness ==
  \E p \in Calls :
    /\ pc[p] = "done" /\ ret[p].err = ErrUpdateMirrors
    /\ pre[p].Auth = "static-auth" /\ pre[p].Mirrors # << >>
    /\ GetRegistryKeyChain(registryHost[p], info[p].imageID, info[p].labels) # EmptyKeyChain

\* C9: on a variant whose kind is none of registry, localfs, oss, a call with a
\* parseable image returns the unknown-backend error naming the kind, calls
\* neither UpdateMirrors nor Supplement nor FillAuth, and leaves the variant as
\* it was.
C9_UnknownBackendNoMutation ==
  \A p \in Calls :
    (/\ Returned(p)
     /\ ~Parsed(p).err
     /\ pre[p].backend \notin {backendTypeRegistry, backendTypeLocalfs, backendTypeOss}) =>
      /\ ret[p] = Ret(ErrUnknownBackend, pre[p].backend)
      /\ Ops(trace[p]) = << "ParseImage", "StorageBackend" >>
      /\ cfg[target[p]] = pre[p]

\* C9 witness: a call on a variant of kind s3 has returned
C9_Witness ==
  \E p \in Calls :
    /\ pc[p] = "done" /\ ~Parsed(p).err
    /\ cfg[target[p]].backend = backendTypeOther
    /\ ret[p].arg = backendTypeOther

\* C10: on a localfs or oss variant a call with a parseable image returns nil,
\* calls neither UpdateMirrors nor the keychain lookup nor Supplement nor
\* FillAuth, and leaves the variant as it was, whatever the VPC flag, the
\* labels and the params.
C10_LocalfsOssNoMutation ==
  \A p \in Calls :
    (/\ Returned(p)
     /\ ~Parsed(p).err
     /\ pre[p].backend \in {backendTypeLocalfs, backendTypeOss}) =>
      /\ ret[p] = RetNil
      /\ Ops(trace[p]) = << "ParseImage", "StorageBackend" >>
      /\ cfg[target[p]] = pre[p]

\* C10 witness: a call with the VPC flag, credential labels and params on an
\* oss variant has returned
C10_Witness ==
  \E p \in Calls :
    /\ pc[p] = "done" /\ ~Parsed(p).err
    /\ cfg[target[p]].backend = backendTypeOss
    /\ info[p].vpc /\ info[p].labels = CredLabels /\ info[p].params = CacheDirParams

\* C11: a call made after an identical call on the same variant (same info,
\* same mirrors directory, same keychain) returns what that call returned and
\* leaves the variant, backend kind, host, repo, auth and mirrors, as that
\* call left it.
C11_Idempotent ==
  \A q \in Calls :
    pc[q] = "ret" =>
      \A p \in Calls \ {q} :
        pc[p] = "done" =>
          /\ ret[q] = ret[p]
          /\ cfg[target[q]] = pre[q]

\* C11 witness: a second registry call with a docker.io image is about to
\* return, after a first one that changed host, repo, auth and mirrors
C11_Witness ==
  \E q \in Calls : \E p \in Calls \ {q} :
    /\ pc[q] = "ret" /\ pc[p] = "done" /\ ret[q] = RetNil
    /\ pre[q].Host = "index.docker.io" /\ pre[q].Auth = "keychain-dockerhub"
    /\ Len(pre[q].Mirrors) = 2 /\ Len(trace[q]) = 6

\* C12: a registry call that finds an empty keychain makes its FillAuth call and
\* leaves the auth of the variant as it was; the auth changes only to the
\* material of a keychain that is not empty, so an auth that was set is never
\* replaced by an empty one.
C12_AuthKept ==
  \A p \in Calls :
    LET c == cfg[target[p]] IN
      /\ (InCritical(p) /\ c.Auth # pre[p].Auth) =>
           keyChain[p] # EmptyKeyChain /\ c.Auth = keyChain[p]
      /\ (Returned(p) /\ ret[p] = RetNil /\ backendType[p] = backendTypeRegistry) =>
           /\ trace[p][Len(trace[p])] = << "FillAuth", keyChain[p] >>
           /\ keyChain[p] = EmptyKeyChain => c.Auth = pre[p].Auth
           /\ keyChain[p] # EmptyKeyChain => c.Auth = keyChain[p]
           /\ pre[p].Auth # "" => c.Auth # ""

\* C12 witness: a registry call on a variant with static credentials found an
\* empty keychain, called FillAuth and returned
C12_Witness ==
  \E p \in Calls :
    /\ pc[p] = "done" /\ ret[p] = RetNil /\ backendType[p] = backendTypeRegistry
    /\ keyChain[p] = EmptyKeyChain /\ Len(trace[p]) = 6
    /\ pre[p].Auth = "static-auth" /\ cfg[target[p]].Auth = "static-auth"

----------------------------------------------------------------------------
(* Redacted serialization                                                   *)

\* The zero value of the field's type
RECURSIVE ZeroOf(_)
ZeroOf(f) ==
  CASE f.kind = "string" -> [f EXCEPT !.str = ""]
    [] f.kind = "struct" -> [f EXCEPT !.sub = [i \in 1..Len(f.sub) |-> ZeroOf(f.sub[i])]]
    [] OTHER -> [f EXCEPT !.isNil = TRUE, !.sub = << >>, !.elems = << >>]

\* The same value with every secret-tagged field, at any depth, set to zero
RECURSIVE Scrub(_)
Scrub(st) ==
  [i \in 1..Len(st) |->
     IF st[i].secret = "true"
       THEN ZeroOf(st[i])
       ELSE [st[i] EXCEPT !.sub = Scrub(st[i].sub),
                          !.elems = [j \in 1..Len(st[i].elems) |-> Scrub(st[i].elems[j])]]]

\* C13: the output never includes a secret-tagged field, at the top level or
\* in a nested or referenced struct at any depth: two inputs that differ only
\* in the values of secret fields give the same output, so the output is the
\* output for the input with its secret fields zeroed.
C13_NoSecretInOutput ==
  result.ran => result.map = serializeWithSecretFilter([obj EXCEPT !.st = Scrub(obj.st)])

\* The field is declared omit-if-zero: omitempty is among the options that
\* follow the name in its json tag
OmitIfZero(f) == \E i \in 2..Len(f.tag) : f.tag[i] = "omitempty"

NilReference(f) == f.kind = "ptr" /\ f.isNil

\* The fields of the struct, and of the structs nested in it, have different keys
RECURSIVE DistinctKeys(_)
DistinctKeys(st) ==
  /\ \A i, j \in 1..Len(st) : Key(st[i]) = Key(st[j]) => i = j
  /\ \A i \in 1..Len(st) : DistinctKeys(st[i].sub)

\* What the omission rules ask of the map m made from the struct st; secret
\* tells whether a secret-tagged field is exempt from having to be present
RECURSIVE OmissionRules(_, _, _)
OmissionRules(st, m, secret) ==
  \A i \in 1..Len(st) :
    LET f == st[i]
        k == Key(f)
    IN  /\ (OmitIfZero(f) /\ IsZero(f)) => k \notin DOMAIN m
        /\ NilReference(f) => k \notin DOMAIN m
        /\ (~OmitIfZero(f) /\ ~NilReference(f) /\ ~(secret /\ f.secret = "true")) => k \in DOMAIN m
        /\ (k \in DOMAIN m /\ f.kind \in {"struct", "ptr"}) =>
             /\ m[k].map
             /\ OmissionRules(f.sub, m[k].entries, secret)

\* C14 as stated: a field declared omit-if-zero is omitted when its value is
\* the zero value of its type, a nil reference field is omitted whether or
\* not it is declared omit-if-zero, and every field that is neither declared
\* omit-if-zero nor a nil reference is present, even when zero-valued.
C14_OmissionRulesAnyField ==
  (result.ran /\ DistinctKeys(obj.st)) => OmissionRules(obj.st, result.map, FALSE)

\* C14 (amended): a field declared omit-if-zero is omitted when its value is
\* the zero value of its type (a zero nested struct included), a nil
\* reference field is omitted whether or not it is declared omit-if-zero, so
\* that neither is rendered as null; a field that is not secret, not declared
\* omit-if-zero and not a nil reference is present even when zero-valued.
C14_OmissionRules ==
  (result.ran /\ DistinctKeys(obj.st)) => OmissionRules(obj.st, result.map, TRUE)

\* A struct field c, kept, whose only field is a zero struct declared
\* omit-if-zero, left out; and a zero string b, not declared so, kept.
C14_Witness ==
  /\ result.ran
  /\ obj.st = << StructField("C", << "c" >>, "",
                   << StructField("C", << "c", "omitempty" >>, "",
                        << StringField("A", << "a" >>, "", "") >>) >>),
                 StringField("B", << "b" >>, "", "") >>
  /\ DOMAIN result.map = {"c", "b"}
  /\ result.map["c"] = AsMap(EmptyMap)
  /\ ~result.map["b"].map /\ result.map["b"].lit.str = ""

\* The serialization name the field declares: the name part of its json tag
DeclaresName(f) == f.tag # << >> /\ f.tag[1] # ""

\* The key the field is to appear under
ExpectedKey(f) == IF DeclaresName(f) THEN f.tag[1] ELSE f.name

\* The fields of the struct, and of the structs nested in it, that declare a
\* serialization name declare different ones, and none that of another field
RECURSIVE DistinctNames(_)
DistinctNames(st) ==
  /\ \A i, j \in 1..Len(st) : ExpectedKey(st[i]) = ExpectedKey(st[j]) => i = j
  /\ \A i \in 1..Len(st) : DistinctNames(st[i].sub)

\* Every field of st that is not omitted is in m under its expected key, m
\* has no other key, and the same holds for the nested structs rendered
RECURSIVE KeyedByName(_, _)
KeyedByName(st, m) ==
  LET kept == {i \in 1..Len(st) : ~Skipped(st[i])} IN
    /\ DOMAIN m = {ExpectedKey(st[i]) : i \in kept}
    /\ Cardinality(DOMAIN m) = Cardinality(kept)
    /\ \A i \in kept :
         LET f == st[i] IN
           IF f.kind \in {"struct", "ptr"}
             THEN m[ExpectedKey(f)].map /\ KeyedByName(f.sub, m[ExpectedKey(f)].entries)
             ELSE m[ExpectedKey(f)] = AsLiteral(Literal(f))

\* C15: every field that is not omitted appears in the output exactly once,
\* under its declared serialization name, or under the field's own name when
\* it declares none; no two fields of a struct share a key, so none is lost
\* or overwritten.
C15_KeyedByName ==
  (result.ran /\ DistinctNames(obj.st)) => KeyedByName(obj.st, result.map)

----------------------------------------------------------------------------
(* The factory                                                              *)

Recognized(driver) == driver \in {FsDriverFscache, FsDriverFusedev}

\* The loader of a recognized driver
LoaderOf(driver) == IF driver = FsDriverFscache THEN "LoadFscacheConfig" ELSE "LoadFuseConfig"

\* C16: NewDaemonConfig returns exactly one of a variant and an error.  For a
\* driver other than the two recognized it returns no variant and the
\* unsupported-driver error, and loads no template at any point; for a
\* recognized driver it calls that driver's loader once on the path, and
\* returns the loader's error and no variant when the load fails, the
\* variant loaded and no error when it does not.
C16_VariantOrError ==
  /\ ~Recognized(fsDriver) => loads = << >>
  /\ newPc = "ret" =>
       /\ (newRet.cfg = NilConfig) # (newRet.err = RetNil)
       /\ ~Recognized(fsDriver) => newRet = Pair(NilConfig, Ret(ErrUnsupportedDriver, fsDriver))
       /\ Recognized(fsDriver) =>
            /\ loads = << << LoaderOf(fsDriver), path >> >>
            /\ IF Decodable(path)
                 THEN newRet = Pair(Loaded(fsDriver, path), RetNil)
                 ELSE /\ newRet.cfg = NilConfig
                      /\ newRet.err = loadRes.err
                      /\ newRet.err.err \in {ErrReadTemplate, ErrDecodeTemplate}

\* An unrecognized driver with a template that would load: refused, unread
C16_Witness ==
  /\ newPc = "ret"
  /\ fsDriver = "blockdev"
  /\ path = "/etc/nydus/nydusd-fusedev.json"
  /\ newRet = Pair(NilConfig, Ret(ErrUnsupportedDriver, "blockdev"))
  /\ loads = << >>

====
